---- MODULE Spec2Model ----
(***************************************************************************)
(* Model of calendar-processor.py: the record splitter (parse_ics_events,  *)
(* extract_calendar_wrapper), the date extractor (extract_event_date), the *)
(* range filter (filter_events_by_date) and the reassembler                *)
(* (create_ics_file), driven either as main drives them or as direct calls *)
(* with an arbitrary window.                                               *)
(*                                                                         *)
(* A string is modelled by the list str.split('\n') gives for it: a        *)
(* non-empty sequence of lines.  A line is a record                        *)
(*   [lead, key, params, digits, rest, trail]                              *)
(* lead/trail: the line carries leading / trailing whitespace;             *)
(* key: the line's text ("" for a blank line), or "DTSTART" for a line     *)
(* "DTSTART" params ":" digits rest.                                       *)
(* A datetime is [ord, tod]: the proleptic Gregorian ordinal of the day    *)
(* (0001-01-01 is 1) and the minute of the day.                            *)
(***************************************************************************)
EXTENDS Integers, Sequences, FiniteSets, TLC

VARIABLES ics_content, today, start_date, end_date, events, filtered_events,
          header, footer, new_ics, reparsed, pc

vars == <<ics_content, today, start_date, end_date, events, filtered_events,
          header, footer, new_ics, reparsed, pc>>

\* Longest input text, in lines.
MaxLen == 5

MONTHS_BEFORE == 2
YEARS_AFTER == 2

----------------------------------------------------------------------------
\* Lines

Line(lead, key, params, digits, rest, trail) ==
  [lead |-> lead, key |-> key, params |-> params, digits |-> digits,
   rest |-> rest, trail |-> trail]

PlainLine(key) == Line(FALSE, key, "", <<>>, "", FALSE)

EmptyLine == PlainLine("")

\* the empty string "", whose split('\n') is ['']
EmptyStr == <<EmptyLine>>

\* line.strip()
line_strip(line) == [line EXCEPT !.lead = FALSE, !.trail = FALSE]

\* line.strip() == 'BEGIN:VEVENT'
IsBegin(line) == line_strip(line) = PlainLine("BEGIN:VEVENT")

\* line.strip() == 'END:VEVENT'
IsEnd(line) == line_strip(line) = PlainLine("END:VEVENT")

\* the line holds only whitespace
IsBlank(line) == line.key = ""

\* '\n'.join(lines) for a list of single lines, seen through split('\n')
join(lines) == IF lines = <<>> THEN EmptyStr ELSE lines

RECURSIVE lstrip_lines(_)
lstrip_lines(s) ==
  IF s = <<>> THEN <<>>
  ELSE IF IsBlank(Head(s)) THEN lstrip_lines(Tail(s))
  ELSE s

RECURSIVE rstrip_lines(_)
rstrip_lines(s) ==
  IF s = <<>> THEN <<>>
  ELSE IF IsBlank(s[Len(s)]) THEN rstrip_lines(SubSeq(s, 1, Len(s) - 1))
  ELSE s

\* str.strip() of a multi-line string
strip(s) ==
  LET t == rstrip_lines(lstrip_lines(s))
  IN IF t = <<>> THEN EmptyStr
     ELSE [i \in 1..Len(t) |->
            [t[i] EXCEPT !.lead  = IF i = 1 THEN FALSE ELSE @,
                         !.trail = IF i = Len(t) THEN FALSE ELSE @]]

----------------------------------------------------------------------------
\* datetime

DateTime(ord, tod) == [ord |-> ord, tod |-> tod]

IsLeap(y) == y % 4 = 0 /\ (y % 100 # 0 \/ y % 400 = 0)

DaysInMonth(y, m) ==
  IF m = 2 THEN (IF IsLeap(y) THEN 29 ELSE 28)
  ELSE IF m \in {4, 6, 9, 11} THEN 30 ELSE 31

DaysBeforeYear(y) ==
  (y - 1) * 365 + ((y - 1) \div 4) - ((y - 1) \div 100) + ((y - 1) \div 400)

RECURSIVE DaysBeforeMonth(_, _)
DaysBeforeMonth(y, m) ==
  IF m = 1 THEN 0 ELSE DaysBeforeMonth(y, m - 1) + DaysInMonth(y, m - 1)

ymd2ord(y, m, d) == DaysBeforeYear(y) + DaysBeforeMonth(y, m) + d

\* datetime.min and datetime.max (to the minute)
datetime_min == DateTime(ymd2ord(1, 1, 1), 0)
datetime_max == DateTime(ymd2ord(9999, 12, 31), 24 * 60 - 1)

\* a <= b on datetimes
LE(a, b) == a.ord < b.ord \/ (a.ord = b.ord /\ a.tod <= b.tod)

\* dt + timedelta(days=n)
plus_days(dt, n) == DateTime(dt.ord + n, dt.tod)

\* datetime.strptime(date_str[:8], '%Y%m%d'): the 8 digits as
\* year(4) month(2) day(2); ValueError unless they name a real date
strptime(digits) ==
  LET y == digits[1] * 1000 + digits[2] * 100 + digits[3] * 10 + digits[4]
      m == digits[5] * 10 + digits[6]
      d == digits[7] * 10 + digits[8]
  IN IF y >= 1 /\ m \in 1..12 /\ d >= 1 /\ d <= DaysInMonth(y, m)
     THEN [raised |-> FALSE, value |-> DateTime(ymd2ord(y, m, d), 0)]
     ELSE [raised |-> TRUE, value |-> datetime_min]

----------------------------------------------------------------------------
\* extract_event_date

\* the pattern DTSTART(?:;[^:]*)?:(\d{8}T?\d*) matches on this line
dtstart_match(line) == line.key = "DTSTART" /\ Len(line.digits) >= 8

\* re.search: the first line of the event the pattern matches on, 0 if none
first_match(event) ==
  IF \E i \in 1..Len(event) : dtstart_match(event[i])
  THEN CHOOSE i \in 1..Len(event) :
         /\ dtstart_match(event[i])
         /\ \A j \in 1..(i - 1) : ~dtstart_match(event[j])
  ELSE 0

extract_event_date(event) ==
  LET i == first_match(event)
  IN IF i # 0 THEN strptime(event[i].digits)
     ELSE [raised |-> FALSE, value |-> datetime_min]

----------------------------------------------------------------------------
\* parse_ics_events

\* The loop of parse_ics_events from line i on.  current_event holds the
\* positions of the buffered lines instead of the lines, so that the result
\* also tells where in the input each event comes from.
RECURSIVE parse_loop(_, _, _, _, _)
parse_loop(lines, i, evs, current_event, in_event) ==
  IF i > Len(lines) THEN evs
  ELSE IF IsBegin(lines[i])
       THEN parse_loop(lines, i + 1, evs, <<i>>, TRUE)
  ELSE IF IsEnd(lines[i])
       THEN parse_loop(lines, i + 1, Append(evs, Append(current_event, i)),
                       <<>>, FALSE)
  ELSE IF in_event
       THEN parse_loop(lines, i + 1, evs, Append(current_event, i), TRUE)
  ELSE parse_loop(lines, i + 1, evs, current_event, in_event)

\* the input positions of each event of parse_ics_events, in order
event_positions(content) == parse_loop(content, 1, <<>>, <<>>, FALSE)

parse_ics_events(content) ==
  LET pos == event_positions(content)
  IN [k \in 1..Len(pos) |-> join([j \in 1..Len(pos[k]) |-> content[pos[k][j]]])]

----------------------------------------------------------------------------
\* filter_events_by_date

\* the window test with the comparison against start left out
InWindow_NoLowerBound(event_date, start, end) == LE(event_date, end)

\* start_date <= event_date <= end_date
InWindow(event_date, start, end) == LE(start, event_date) /\ LE(event_date, end)

RECURSIVE filter_loop(_, _, _, _, _)
filter_loop(evs, i, filtered, start, end) ==
  IF i > Len(evs) THEN [raised |-> FALSE, value |-> filtered]
  ELSE LET event_date == extract_event_date(evs[i])
       IN IF event_date.raised THEN [raised |-> TRUE, value |-> <<>>]
          ELSE IF InWindow(event_date.value, start, end)
               THEN filter_loop(evs, i + 1, Append(filtered, evs[i]), start, end)
          ELSE filter_loop(evs, i + 1, filtered, start, end)

filter_events_by_date(evs, start, end) == filter_loop(evs, 1, <<>>, start, end)

----------------------------------------------------------------------------
\* extract_calendar_wrapper

\* the number of lines the while loop puts in header_lines
RECURSIVE header_len(_, _)
header_len(lines, i) ==
  IF i <= Len(lines) /\ ~IsBegin(lines[i]) THEN header_len(lines, i + 1)
  ELSE i - 1

\* The reversed loop at position i (counted from the end of lines): the
\* number of lines it puts in footer_lines.
RECURSIVE footer_len(_, _, _)
footer_len(lines, i, in_event) ==
  IF i < 1 THEN 0
  ELSE IF IsEnd(lines[i]) THEN footer_len(lines, i - 1, TRUE)
  ELSE IF ~in_event THEN 1 + footer_len(lines, i - 1, in_event)
  ELSE 0

\* the input positions of the header lines and of the footer lines
header_positions(content) == 1..header_len(content, 1)
footer_positions(content) ==
  (Len(content) - footer_len(content, Len(content), FALSE) + 1)..Len(content)

extract_calendar_wrapper(content) ==
  LET h == header_len(content, 1)
      f == footer_len(content, Len(content), FALSE)
  IN <<join(SubSeq(content, 1, h)),
       join(SubSeq(content, Len(content) - f + 1, Len(content)))>>

----------------------------------------------------------------------------
\* create_ics_file

RECURSIVE concat(_)
concat(strs) == IF strs = <<>> THEN <<>> ELSE Head(strs) \o concat(Tail(strs))

\* '\n'.join([header.strip()] + events + [footer.strip()])
create_ics_file(evs, original_header, original_footer) ==
  strip(original_header) \o concat(evs) \o strip(original_footer)

----------------------------------------------------------------------------
\* Inputs

\* the lines input texts are made of
Alphabet ==
  { PlainLine("BEGIN:VEVENT"),
    Line(TRUE, "BEGIN:VEVENT", "", <<>>, "", TRUE),
    PlainLine("END:VEVENT"),
    Line(FALSE, "DTSTART", "", <<2, 0, 2, 4, 0, 1, 0, 1>>, "", FALSE),
    Line(FALSE, "DTSTART", ";VALUE=DATE", <<2, 0, 2, 6, 0, 3, 0, 1>>,
         "T090000Z", FALSE),
    Line(FALSE, "DTSTART", "", <<2, 0, 2, 4, 1, 3, 0, 1>>, "", FALSE),
    Line(TRUE, "SUMMARY:x", "", <<>>, "", TRUE),
    Line(TRUE, "", "", <<>>, "", FALSE) }

Texts == UNION { [1..n -> Alphabet] : n \in 1..MaxLen }

\* the windows of direct calls of filter_events_by_date
Windows ==
  { <<datetime_min, datetime_max>>,
    <<DateTime(ymd2ord(2024, 1, 1), 0), DateTime(ymd2ord(2024, 12, 31), 0)>> }

\* the instants datetime.now() gives
Nows == { DateTime(ymd2ord(2024, 3, 1), t) : t \in {0, 12 * 60 + 30} }

\* today before main has read the clock
NoDate == DateTime(0, 0)

----------------------------------------------------------------------------
\* The pipeline

Init ==
  /\ ics_content \in Texts
  /\ \E w \in Windows : start_date = w[1] /\ end_date = w[2]
  /\ today = NoDate
  /\ events = <<>>
  /\ filtered_events = <<>>
  /\ header = EmptyStr
  /\ footer = EmptyStr
  /\ new_ics = EmptyStr
  /\ reparsed = <<>>
  /\ pc = "start"

\* main: the download gave a non-empty text; the window is resolved from now
ResolveWindow ==
  /\ pc = "start"
  /\ ics_content # EmptyStr
  /\ \E now \in Nows :
       /\ today' = now
       /\ start_date' = plus_days(now, 0 - MONTHS_BEFORE * 30)
       /\ end_date' = plus_days(now, YEARS_AFTER * 365)
  /\ pc' = "window"
  /\ UNCHANGED <<ics_content, events, filtered_events, header, footer,
                 new_ics, reparsed>>

ParseEvents ==
  /\ pc \in {"start", "window"}
  /\ events' = parse_ics_events(ics_content)
  /\ pc' = "parsed"
  /\ UNCHANGED <<ics_content, today, start_date, end_date, filtered_events,
                 header, footer, new_ics, reparsed>>

\* filter_events_by_date returns
FilterReturns ==
  /\ pc = "parsed"
  /\ LET r == filter_events_by_date(events, start_date, end_date)
     IN /\ ~r.raised
        /\ filtered_events' = r.value
  /\ pc' = "filtered"
  /\ UNCHANGED <<ics_content, today, start_date, end_date, events, header,
                 footer, new_ics, reparsed>>

\* filter_events_by_date leaves by the ValueError of strptime, which nothing
\* catches
FilterRaises ==
  /\ pc = "parsed"
  /\ filter_events_by_date(events, start_date, end_date).raised
  /\ pc' = "raised"
  /\ UNCHANGED <<ics_content, today, start_date, end_date, events,
                 filtered_events, header, footer, new_ics, reparsed>>

ExtractWrapper ==
  /\ pc = "filtered"
  /\ LET w == extract_calendar_wrapper(ics_content)
     IN header' = w[1] /\ footer' = w[2]
  /\ pc' = "wrapped"
  /\ UNCHANGED <<ics_content, today, start_date, end_date, events,
                 filtered_events, new_ics, reparsed>>

CreateFile ==
  /\ pc = "wrapped"
  /\ new_ics' = create_ics_file(filtered_events, header, footer)
  /\ pc' = "created"
  /\ UNCHANGED <<ics_content, today, start_date, end_date, events,
                 filtered_events, header, footer, reparsed>>

\* the produced text split again
Reparse ==
  /\ pc = "created"
  /\ reparsed' = parse_ics_events(new_ics)
  /\ pc' = "reparsed"
  /\ UNCHANGED <<ics_content, today, start_date, end_date, events,
                 filtered_events, header, footer, new_ics>>

Next ==
  \/ ResolveWindow
  \/ ParseEvents
  \/ FilterReturns
  \/ FilterRaises
  \/ ExtractWrapper
  \/ CreateFile
  \/ Reparse

Spec == Init /\ [][Next]_vars

\* the call of filter_events_by_date has ended, by return or by exception
FilterCalled == pc \in {"filtered", "raised", "wrapped", "created", "reparsed"}
FilterReturned == pc \in {"filtered", "wrapped", "created", "reparsed"}
Wrapped == pc \in {"wrapped", "created", "reparsed"}

----------------------------------------------------------------------------
\* Helpers of the properties

Range(seq) == { seq[i] : i \in 1..Len(seq) }

\* the records of evs whose extracted date is inside [start, end], in order
InWindowRecords(evs, start, end) ==
  LET keep(ev) == /\ LE(start, extract_event_date(ev).value)
                  /\ LE(extract_event_date(ev).value, end)
  IN SelectSeq(evs, keep)

\* the record has a DTSTART field of 8 digits that name no calendar date
HasUnrealDate(ev) ==
  \E i \in 1..Len(ev) :
    /\ ev[i].key = "DTSTART"
    /\ Len(ev[i].digits) = 8
    /\ LET g == ev[i].digits
           y == g[1] * 1000 + g[2] * 100 + g[3] * 10 + g[4]
           m == g[5] * 10 + g[6]
           d == g[7] * 10 + g[8]
       IN ~(y >= 1 /\ m \in 1..12 /\ d >= 1 /\ d <= DaysInMonth(y, m))

\* the record has no DTSTART field at all
NoDtstartField(ev) == \A i \in 1..Len(ev) : ev[i].key # "DTSTART"

\* the text has no BEGIN:VEVENT line closed by a later END:VEVENT line
NoRecord(content) ==
  ~\E i \in 1..Len(content) : \E j \in (i + 1)..Len(content) :
      IsBegin(content[i]) /\ IsEnd(content[j])

\* position i holds a BEGIN:VEVENT line with no END:VEVENT line after it
Unterminated(content, i) ==
  /\ IsBegin(content[i])
  /\ \A j \in (i + 1)..Len(content) : ~IsEnd(content[j])

\* the input positions the splitter gives to some record
RecordPositions(content) ==
  UNION { Range(event_positions(content)[k]) :
            k \in 1..Len(event_positions(content)) }

----------------------------------------------------------------------------
\* Properties

\* C1: for every list of records and every window, filter_events_by_date
\* returns exactly the subsequence of the records whose extracted date d has
\* start <= d <= end, in the original order.
C1_FilterReturnsWindowSubsequence ==
  FilterCalled =>
    /\ FilterReturned
    /\ filtered_events = InWindowRecords(events, start_date, end_date)

\* C2: a record whose DTSTART carries 8 digits that form no real date gets the
\* sentinel minimum date instead of raising, so the filter over a batch with
\* such a record completes and returns the in-window records of the rest.
C2_UnrealDateFailsClosed ==
  (FilterCalled /\ \E k \in 1..Len(events) : HasUnrealDate(events[k])) =>
    /\ FilterReturned
    /\ \A k \in 1..Len(events) :
         HasUnrealDate(events[k]) =>
           extract_event_date(events[k]) =
             [raised |-> FALSE, value |-> datetime_min]

\* C3: splitting the text create_ics_file produces from the filtered records
\* and the input's header and footer yields exactly the filtered records, in
\* the same order.
C3_RoundTrip == pc = "reparsed" => reparsed = filtered_events

\* C4: an input text with no record gives an empty record list, a header
\* equal to the entire text and an empty footer.
C4_NoRecordSplit ==
  (Wrapped /\ NoRecord(ics_content)) =>
    /\ events = <<>>
    /\ header = ics_content
    /\ footer = EmptyStr

\* C5: no line of an unterminated trailing block, from its BEGIN:VEVENT line
\* to the end of the document, is in the header, in the footer or in a record.
C5_UnterminatedBlockDropped ==
  Wrapped =>
    \A i \in 1..Len(ics_content) :
      Unterminated(ics_content, i) =>
        \A k \in i..Len(ics_content) :
          /\ k \notin header_positions(ics_content)
          /\ k \notin footer_positions(ics_content)
          /\ k \notin RecordPositions(ics_content)

\* C6: neither the header nor the footer contains a BEGIN:VEVENT or an
\* END:VEVENT line.
C6_WrapperHasNoMarker ==
  Wrapped =>
    \A line \in Range(header) \cup Range(footer) :
      ~IsBegin(line) /\ ~IsEnd(line)

\* C7: every record of parse_ics_events is a contiguous run of input lines
\* that starts with a BEGIN:VEVENT line, ends with an END:VEVENT line and has
\* no other marker line in between.
C7_RecordShape ==
  \A k \in 1..Len(events) :
    LET ev == events[k]
    IN /\ IsBegin(ev[1])
       /\ IsEnd(ev[Len(ev)])
       /\ \A j \in 2..(Len(ev) - 1) : ~IsBegin(ev[j]) /\ ~IsEnd(ev[j])
       /\ \E a \in 1..Len(ics_content) :
            a + Len(ev) - 1 <= Len(ics_content)
            /\ ev = SubSeq(ics_content, a, a + Len(ev) - 1)

\* C8: with the window main resolves from now, a record whose DTSTART day is
\* the calendar day of start or the calendar day of end is retained, whatever
\* the time of day of now.
C8_WindowInclusiveByDay ==
  (FilterReturned /\ today # NoDate) =>
    \A k \in 1..Len(events) :
      extract_event_date(events[k]).value.ord \in {start_date.ord, end_date.ord}
        => events[k] \in Range(filtered_events)

\* C9: a record with no DTSTART field gets the sentinel minimum date, and
\* filter_events_by_date keeps it exactly when start is the minimum date.
C9_SentinelExcluded ==
  \A k \in 1..Len(events) :
    NoDtstartField(events[k]) =>
      /\ extract_event_date(events[k]) =
           [raised |-> FALSE, value |-> datetime_min]
      /\ FilterReturned =>
           (events[k] \in Range(filtered_events) <=> start_date = datetime_min)

\* C9 witness: the filter returned, kept a dated record and dropped a record
\* with no DTSTART field under a window that starts after the minimum date.
C9_Witness ==
  /\ pc = "filtered"
  /\ start_date # datetime_min
  /\ filtered_events # <<>>
  /\ \E k \in 1..Len(events) :
       NoDtstartField(events[k]) /\ events[k] \notin Range(filtered_events)

\* C10: the input positions given to the header, to each record and to the
\* footer are pairwise disjoint, so no input line is emitted twice.
C10_DisjointRanges ==
  Wrapped =>
    LET pos == event_positions(ics_content)
        h == header_positions(ics_content)
        f == footer_positions(ics_content)
    IN /\ h \cap f = {}
       /\ \A k \in 1..Len(pos) : Range(pos[k]) \cap (h \cup f) = {}
       /\ \A k \in 1..Len(pos) : \A l \in 1..Len(pos) :
            k # l => Range(pos[k]) \cap Range(pos[l]) = {}

====
